---- MODULE Spec2Model ----
(***************************************************************************)
(* QKart storefront front end.                                             *)
(*                                                                         *)
(* Two parts share this module:                                            *)
(*  - the cart helpers of components/Cart.js (generateCartItemsFrom,       *)
(*    getTotalCartValue, getTotalItems), pure functions exercised by       *)
(*    SpecPure on inputs drawn from bounded sets;                          *)
(*  - the Products page (components/Products.js, concatenated into         *)
(*    src/App.js) with the Cart component it renders, the debounce timer,  *)
(*    the requests in flight and the backend's cart, exercised by Spec.    *)
(*                                                                         *)
(* A third part, exercised by SpecSession, is the session kept in          *)
(* localStorage and the pages that write it: Login (components/Login.js,   *)
(* concatenated into src/components/ProductCard.js), Register, the logout  *)
(* button of Header and the Checkout page (src/unnamed/part_001).          *)
(*                                                                         *)
(* SpecHandlers, SpecCards, SpecLive and SpecGuards are Spec with, in      *)
(* turn, the add-to-cart handler invoked, the clicks on the cards' buttons *)
(* observed, every request settling, and the user leaving for the Login    *)
(* or the Checkout page.                                                   *)
(*                                                                         *)
(* JavaScript values that are not of one TLA+ type are kept apart: a call  *)
(* that throws is recorded in a status string next to its result.          *)
(***************************************************************************)
EXTENDS Integers, Sequences, FiniteSets, Bags, TLC

VARIABLES
    \* ---- inputs and results of the cart helpers (SpecPure) ----
    cartData,        \* argument of generateCartItemsFrom: <<[productId, qty]>>
    productsData,    \* argument of generateCartItemsFrom: <<Product>>
    genStatus,       \* "none" | "returned" | "TypeError"
    genItems,        \* the list generateCartItemsFrom returned
    argKind,         \* argument of the total functions: "list" | "undefined"
    valueStatus,     \* getTotalCartValue: "none" | "returned" | "TypeError"
    valueResult,     \* number returned by getTotalCartValue
    countStatus,     \* getTotalItems: "none" | "returned"
    countResult,     \* number returned by getTotalItems
    inCartId,        \* productId argument of isItemInCart
    inCartResult,    \* isItemInCart: "none" | "true" | "false" | "undefined"
    \* ---- the Products page (Spec) ----
    localStorage,    \* [token, username, balance]: the values stored, as
                     \* strings; "null" or AbsentValue when the key is absent
    route,           \* "/" (Products) | "/login" | "/register" |
                     \* "/checkout" | "/thanks"
    isBusyLoading,   \* Products state
    products,        \* Products state: the product list displayed
    cartKind,        \* Products state cart: "list" | "undefined" | "null"
    cart,            \* Products state cart, when it is a list
    searchBox,       \* Products state: text of the (controlled) search fields
    debounceTimeout, \* Products state: id of the last timer set, 0 for null
    timers,          \* ids of the pending setTimeout callbacks
    nextTimer,       \* id the next setTimeout returns
    msgs,            \* bag of requests sent and responses not yet handled
    requestsSent,    \* requests sent by timers, clicks and key presses
    backendCart,     \* the cart the backend holds for the user
    cartItems,       \* Cart component state cart
    effectRuns,      \* executions of the Cart effect so far
    crashed,         \* an uncaught error in render or effect unmounted the app
    dupWarnings,     \* "Item already in cart" snackbars shown
    failed,          \* a request has failed
    expectedQty,     \* observer: per product, the quantity the backend held
                     \* at page load plus the clicks on + minus those on -
    cardClicked,     \* observer: _id of the product whose "Add to cart"
                     \* button was clicked last, "" before any click
    \* ---- Login, Register, Header and Checkout (SpecSession) ----
    sessMsgs,        \* bag of the requests of these pages and their responses
    sessSent,        \* requests these pages have sent on clicks and mounts
    isBusy,          \* Login, Register state: the spinner replaces the button
    form,            \* Login, Register state: [username, password,
                     \* confirmPassword], the texts of the fields
    checkoutItems,   \* Checkout state items: the cart items to order
    addresses,       \* Checkout state: [kind, all, selected]; kind is "null"
                     \* when all is null
    newAddress,      \* Checkout state: newAddress.isAddingNewAddress
    backendAddrs,    \* the addresses the backend holds for the user
    lastOp           \* [op, res]: the handler or continuation of the session
                     \* pages that ran last, and the request it sent or the
                     \* response it received

pureVars == <<cartData, productsData, genStatus, genItems, argKind,
              valueStatus, valueResult, countStatus, countResult,
              inCartId, inCartResult>>

pageVars == <<localStorage, route, isBusyLoading, products, cartKind, cart,
              searchBox, debounceTimeout, timers, nextTimer, msgs, requestsSent,
              backendCart, cartItems, effectRuns, crashed, dupWarnings, failed,
              expectedQty, cardClicked>>

\* What the user has clicked, recorded beside the state of the page
clickVars == <<expectedQty, cardClicked>>

sessionVars == <<sessMsgs, sessSent, isBusy, form, checkoutItems, addresses, newAddress,
                 backendAddrs, lastOp>>

\* The state of the Products page that the other pages never touch
productsVars == <<isBusyLoading, products, cartKind, cart, searchBox,
                  debounceTimeout, timers, nextTimer, msgs, requestsSent,
                  cartItems, effectRuns, dupWarnings, failed,
                  expectedQty, cardClicked>>

vars == <<cartData, productsData, genStatus, genItems, argKind,
          valueStatus, valueResult, countStatus, countResult,
          inCartId, inCartResult,
          localStorage, route, isBusyLoading, products, cartKind, cart,
          searchBox, debounceTimeout, timers, nextTimer, msgs, requestsSent,
          backendCart, cartItems, effectRuns, crashed, dupWarnings, failed,
          expectedQty, cardClicked,
          sessMsgs, sessSent, isBusy, form, checkoutItems, addresses, newAddress,
          backendAddrs, lastOp>>

----------------------------------------------------------------------------
\* Bounds of the model

\* longest cart-line list handed to the cart helpers
MaxLen == 2
\* longest catalog handed to generateCartItemsFrom
MaxCatalog == 2
\* largest quantity of a cart line
MaxQty == 2
\* keystrokes in the search fields
MaxKeystrokes == 2
\* requests after which clicks and key presses send no more
MaxRequests == 2

----------------------------------------------------------------------------
\* Data

\* Product records as the backend sends them (Cart.js typedef Product).
\* "p1" occurs twice with different fields, so that a catalog can hold
\* several products with one identifier; "p3" is in no catalog.
MkProduct(id, name, category, cost, rating, image) ==
    [_id |-> id, name |-> name, category |-> category, cost |-> cost,
     rating |-> rating, image |-> image]

ProductPool ==
    { MkProduct("p1", "Ball", "Sports", 100, 5, "img1"),
      MkProduct("p2", "Phone", "Phones", 7, 4, "img2"),
      MkProduct("p1", "Bat", "Games", 3, 2, "img3") }

ProductIds == {"p1", "p2", "p3"}

SeqsUpTo(S, n) == UNION { [1..k -> S] : k \in 0..n }

CartLines == [productId : ProductIds, qty : 1..MaxQty]

\* The worked example of the cart helpers: one product "A" at 100, and a cart
\* holding three of it.
ScenarioCatalog == << MkProduct("A", "Ball", "Sports", 100, 5, "x") >>

ScenarioCart == << [productId |-> "A", qty |-> 3] >>

----------------------------------------------------------------------------
\* components/Cart.js

\* FindProduct taking the last product of that _id instead of the first
FindProduct_LastMatch(productsData_, productId) ==
    IF \E j \in 1..Len(productsData_) : productsData_[j]._id = productId
    THEN CHOOSE j \in 1..Len(productsData_) :
            /\ productsData_[j]._id = productId
            /\ \A k \in (j + 1)..Len(productsData_) :
                    productsData_[k]._id # productId
    ELSE 0

\* Array.prototype.find on the catalog: index of the first product whose _id
\* is the given one, 0 when there is none (find returns undefined).
FindProduct(productsData_, productId) ==
    IF \E j \in 1..Len(productsData_) : productsData_[j]._id = productId
    THEN CHOOSE j \in 1..Len(productsData_) :
            /\ productsData_[j]._id = productId
            /\ \A k \in 1..(j - 1) : productsData_[k]._id # productId
    ELSE 0

\* CartItemOf that forgets the quantity of the cart line
CartItemOf_QtyOne(item, product) ==
    [name |-> product.name, qty |-> 1, category |-> product.category,
     cost |-> product.cost, rating |-> product.rating, image |-> product.image,
     productId |-> product._id]

\* CartItemOf with the cost and rating of the product exchanged
CartItemOf_CostRatingSwapped(item, product) ==
    [name |-> product.name, qty |-> item.qty, category |-> product.category,
     cost |-> product.rating, rating |-> product.cost, image |-> product.image,
     productId |-> product._id]

\* The object literal built for one cart line whose product was found.
CartItemOf(item, product) ==
    [name |-> product.name, qty |-> item.qty, category |-> product.category,
     cost |-> product.cost, rating |-> product.rating, image |-> product.image,
     productId |-> product._id]

\* generateCartItemsFrom: cartData.map(...). Reading product.name of an
\* undefined product throws a TypeError out of map and of the function, so
\* no list is returned at all.
generateCartItemsFrom(cartData_, productsData_) ==
    IF \E i \in 1..Len(cartData_) :
            FindProduct(productsData_, cartData_[i].productId) = 0
    THEN [status |-> "TypeError", items |-> <<>>]
    ELSE [status |-> "returned",
          items |-> [i \in 1..Len(cartData_) |->
                        CartItemOf(cartData_[i],
                            productsData_[FindProduct(productsData_,
                                                      cartData_[i].productId)])]]

\* items.reduce((acc, item) => acc + step(item), init), left to right.
RECURSIVE ReduceValue(_, _, _)
ReduceValue(items, i, acc) ==
    IF i > Len(items) THEN acc
    ELSE ReduceValue(items, i + 1, acc + items[i].cost * items[i].qty)

\* getTotalCartValue with the quantity left out of the step: acc + item.cost
RECURSIVE ReduceCost(_, _, _)
ReduceCost(items, i, acc) ==
    IF i > Len(items) THEN acc
    ELSE ReduceCost(items, i + 1, acc + items[i].cost)

getTotalCartValue_NoQty(items) == ReduceCost(items, 1, 0)

getTotalCartValue(items) == ReduceValue(items, 1, 0)

RECURSIVE ReduceItems(_, _, _)
ReduceItems(items, i, acc) ==
    IF i > Len(items) THEN acc
    ELSE ReduceItems(items, i + 1, acc + items[i].qty)

\* getTotalItems counting the lines instead of adding the quantities: acc + 1
getTotalItems_CountLines(kind, items) ==
    IF kind = "undefined" THEN 0 ELSE Len(items)

\* getTotalItems(items = []): the default replaces an undefined argument.
getTotalItems(kind, items) ==
    ReduceItems(IF kind = "undefined" THEN <<>> ELSE items, 1, 0)

----------------------------------------------------------------------------
\* The backend, as the Products page sees it

\* GET /products: the catalog, each identifier once.
Catalog ==
    << MkProduct("p1", "Ball", "Sports", 100, 5, "img1"),
       MkProduct("p2", "Phone", "Phones", 7, 4, "img2") >>

\* Texts the user leaves in the search box.
Texts == {"ball", "zzz"}

\* GET /products/search?value=text: whether the backend returns the product.
SearchHit(text, product) ==
    text = "ball" /\ product._id = "p1"

RECURSIVE FilterSeq(_, _)
FilterSeq(seq, text) ==
    IF seq = <<>> THEN <<>>
    ELSE IF SearchHit(text, Head(seq))
         THEN <<Head(seq)>> \o FilterSeq(Tail(seq), text)
         ELSE FilterSeq(Tail(seq), text)

\* The products the backend finds for a text; it answers 404 when there are none.
SearchResult(text) == FilterSeq(Catalog, text)

\* Carts the backend may hold for the user when the page loads.
InitialBackendCarts ==
    { <<>>,
      << [productId |-> "p2", qty |-> 1], [productId |-> "p1", qty |-> 1] >> }

\* POST /cart {productId, qty}: the quantity of the product is set, a
\* quantity of 0 removes the line, a new product is appended.
RECURSIVE BackendSetQty(_, _, _)
BackendSetQty(lines, productId, qty) ==
    IF lines = <<>>
    THEN IF qty > 0 THEN << [productId |-> productId, qty |-> qty] >> ELSE <<>>
    ELSE IF Head(lines).productId = productId
         THEN IF qty > 0
              THEN << [productId |-> productId, qty |-> qty] >> \o Tail(lines)
              ELSE Tail(lines)
         ELSE <<Head(lines)>> \o BackendSetQty(Tail(lines), productId, qty)

----------------------------------------------------------------------------
\* Messages between the page and the backend

MkMsg(kind, text, then, productId, qty) ==
    [kind |-> kind, text |-> text, then |-> then,
     productId |-> productId, qty |-> qty, status |-> "pending", data |-> <<>>]

\* axios.get(config.endpoint + "/products")
ProductsRequest == MkMsg("products", "", "setProducts", "", 0)

\* axios.get(config.endpoint + "/cart", ...)
CartRequest == MkMsg("cart", "", "setCart", "", 0)

\* performSearch(text): the request; then is "setProducts" when the caller
\* chains .then((data) => setProducts(data)), "none" when it drops the result.
performSearch(text, then) == MkMsg("search", text, then, "", 0)

\* axios.post(config.endpoint + "/cart", {productId, qty}, ...)
CartPost(productId, qty) == MkMsg("post", "", "setCart", productId, qty)

\* Messages in flight, each once
InFlight == BagToSet(msgs)

Pending(kind) == { m \in InFlight : m.kind = kind /\ m.status = "pending" }

Send(bag, m) == bag (+) SetToBag({m})

Take(bag, m) == bag (-) SetToBag({m})

----------------------------------------------------------------------------
\* Products page (src/App.js, lines 38-476)

\* localStorage.getItem of a key that is absent gives null
AbsentValue == << "null" >>

DigitChars == << "0", "1", "2", "3", "4", "5", "6", "7", "8", "9" >>

\* The decimal digits of a natural number, most significant first
RECURSIVE Digits(_)
Digits(n) ==
    IF n < 10 THEN << DigitChars[n + 1] >>
    ELSE Digits(n \div 10) \o << DigitChars[(n % 10) + 1] >>

\* Number.prototype.toString, and the string localStorage.setItem stores for
\* a number: the characters of its decimal numeral.
toString(n) == IF n < 0 THEN << "-" >> \o Digits(0 - n) ELSE Digits(n)

DigitValue(c) == CHOOSE d \in 0..9 : DigitChars[d + 1] = c

RECURSIVE NumberOfDigits(_)
NumberOfDigits(chars) ==
    IF Len(chars) = 0 THEN 0
    ELSE NumberOfDigits(SubSeq(chars, 1, Len(chars) - 1)) * 10
            + DigitValue(chars[Len(chars)])

\* Number(value) of a stored numeral; Number(null) is 0.
Number(chars) ==
    IF chars = AbsentValue THEN 0
    ELSE IF chars[1] = "-" THEN 0 - NumberOfDigits(Tail(chars))
    ELSE NumberOfDigits(chars)

LoggedOut == [token |-> "null", username |-> "null", balance |-> AbsentValue]
LoggedIn == [token |-> "tok", username |-> "user", balance |-> toString(5000)]

\* Checkout: useState({ all: [], selected: "" })
NoAddresses == [kind |-> "list", all |-> <<>>, selected |-> ""]

\* Login, Register: useState("") of each field
EmptyForm == [username |-> "", password |-> "", confirmPassword |-> ""]

\* A request of these pages; the response fills status and the data fields.
\* live tells whether the component that sent it is still mounted;
\* productsOk, cartOk and lines are the locals of onLoadHandler.
MkReq(kind, arg, amount) ==
    [kind |-> kind, arg |-> arg, amount |-> amount, live |-> TRUE,
     status |-> "pending", token |-> "", username |-> "", balance |-> 0,
     lines |-> <<>>, productsOk |-> FALSE, cartOk |-> FALSE]

\* What lastOp holds after the step op, which sent or received nothing, or
\* sent or received m
Did(op) == [op |-> op, res |-> MkReq("none", "", 0)]

DidWith(op, m) == [op |-> op, res |-> m]

\* No page other than Products has been used.
SessionIdle ==
    /\ sessMsgs = EmptyBag
    /\ sessSent = 0
    /\ isBusy = FALSE
    /\ form = EmptyForm
    /\ checkoutItems = <<>>
    /\ addresses = NoAddresses
    /\ newAddress = FALSE
    /\ backendAddrs = <<>>
    /\ lastOp = Did("none")

\* isItemInCart = (items, productId) => {}: the empty body returns undefined.
isItemInCart(items, productId) == "undefined"

\* The page is mounted and its handlers can run.
PageLive == route = "/" /\ ~crashed

\* clearTimeout(id): a pending timer of that id is removed; an id that has
\* fired, or null, clears nothing.
ClearTimeout(pending, id) == pending \ {id}

\* debounceSearch without the clearTimeout of the previous timer
debounceSearch_NoClear(pending, debounceTimeout_, timer) == pending \cup {timer}

\* debounceSearch(event, debounceTimeout): the pending timers afterwards.
debounceSearch(pending, debounceTimeout_, timer) ==
    (IF debounceTimeout_ # 0 THEN ClearTimeout(pending, debounceTimeout_)
     ELSE pending) \cup {timer}

\* The callback of the debounce timer: the requests it sends. event.target
\* is a controlled input, so its value when the timer fires is searchBox.
TimerCallback(value) == performSearch(value, "setProducts")

\* The cart lines an items prop or argument stands for.
CartLinesOf(kind, lines) == IF kind = "list" THEN lines ELSE <<>>

\* <Cart products items> is rendered only for a logged-in user
CartRendered == localStorage.username # "null"

\* The products on sale
CatalogIds == { Catalog[i]._id : i \in 1..Len(Catalog) }

\* The quantity cart lines give for a product, 0 without a line for it
QtyIn(lines, productId) ==
    IF \E i \in 1..Len(lines) : lines[i].productId = productId
    THEN lines[CHOOSE i \in 1..Len(lines) : lines[i].productId = productId].qty
    ELSE 0

\* Before any click: the quantities are those of the backend's cart.
NothingClicked ==
    /\ expectedQty = [p \in CatalogIds |-> QtyIn(backendCart, p)]
    /\ cardClicked = ""

\* setCart(value) in Products, with the render and the Cart effect that follow.
\*  - items null: Cart reads items.length and throws while rendering;
\*  - items changed: the effect calls generateCartItemsFrom(items, products),
\*    and an error thrown there is uncaught as well.
\*  - page unmounted: the setter does nothing.
SetCart(kind, lines) ==
    IF ~PageLive
    THEN UNCHANGED <<cartKind, cart, cartItems, effectRuns, crashed>>
    ELSE
    /\ cartKind' = kind
    /\ cart' = CartLinesOf(kind, lines)
    /\ IF ~CartRendered
       THEN UNCHANGED <<cartItems, effectRuns, crashed>>
       ELSE IF kind = "null"
       THEN crashed' = TRUE /\ UNCHANGED <<cartItems, effectRuns>>
       ELSE LET r == generateCartItemsFrom(CartLinesOf(kind, lines), products) IN
            /\ effectRuns' = effectRuns + 1
            /\ crashed' = (r.status = "TypeError")
            /\ cartItems' = IF r.status = "returned" THEN r.items ELSE cartItems

\* State after Products mounted: both effects have run, the initial requests
\* are in flight (fetchCart without a token resolves to undefined at once).
InitPage ==
    /\ localStorage \in {LoggedOut, LoggedIn}
    /\ route = "/"
    /\ isBusyLoading = TRUE
    /\ products = <<>>
    /\ cartKind = (IF localStorage.token = "null" THEN "undefined" ELSE "list")
    /\ cart = <<>>
    /\ searchBox = ""
    /\ debounceTimeout = 0
    /\ timers = {}
    /\ nextTimer = 1
    /\ msgs = IF localStorage.token = "null" THEN SetToBag({ProductsRequest})
              ELSE SetToBag({ProductsRequest, CartRequest})
    /\ requestsSent = 0
    /\ backendCart \in InitialBackendCarts
    /\ cartItems = <<>>
    /\ effectRuns = (IF localStorage.username = "null" THEN 0 ELSE 1)
    /\ crashed = FALSE
    /\ dupWarnings = 0
    /\ failed = FALSE
    /\ NothingClicked

PureIdle ==
    /\ cartData = <<>>
    /\ productsData = <<>>
    /\ genStatus = "none"
    /\ genItems = <<>>
    /\ argKind = "list"
    /\ valueStatus = "none"
    /\ valueResult = 0
    /\ countStatus = "none"
    /\ countResult = 0
    /\ inCartId = "p1"
    /\ inCartResult = "none"

Init == InitPage /\ PureIdle /\ SessionIdle

----------------------------------------------------------------------------
\* Search: handlers of the two search fields, the debounce timer, responses

Targets == {"desktop", "mobile"}

\* The onChange handler searching at once, without the debounce timer
Keystroke_NoDebounce(target, text) ==
    /\ PageLive
    /\ nextTimer <= MaxKeystrokes
    /\ text # searchBox
    /\ searchBox' = text
    /\ msgs' = Send(msgs, performSearch(text, "setProducts"))
    /\ nextTimer' = nextTimer + 1
    /\ UNCHANGED <<localStorage, route, isBusyLoading, products, cartKind, cart,
                   debounceTimeout, timers, requestsSent, backendCart, cartItems,
                   effectRuns, crashed, dupWarnings, failed>>
    /\ UNCHANGED pureVars
    /\ UNCHANGED sessionVars
    /\ UNCHANGED clickVars

\* onChange of a search field: setSearchBox(e.target.value) and
\* debounceSearch(e, debounceTimeout), then the render.
Keystroke(target, text) ==
    /\ PageLive
    /\ nextTimer <= MaxKeystrokes
    /\ text # searchBox
    /\ searchBox' = text
    /\ timers' = debounceSearch(timers, debounceTimeout, nextTimer)
    /\ debounceTimeout' = nextTimer
    /\ nextTimer' = nextTimer + 1
    /\ UNCHANGED <<localStorage, route, isBusyLoading, products, cartKind, cart,
                   msgs, requestsSent, backendCart, cartItems, effectRuns, crashed,
                   dupWarnings, failed>>
    /\ UNCHANGED pureVars
    /\ UNCHANGED sessionVars
    /\ UNCHANGED clickVars

\* 500 ms have passed since the timer was set: its callback runs.
TimerFire(t) ==
    /\ t \in timers
    /\ timers' = timers \ {t}
    /\ msgs' = Send(msgs, TimerCallback(searchBox))
    /\ requestsSent' = requestsSent + 1
    /\ UNCHANGED <<localStorage, route, isBusyLoading, products, cartKind, cart,
                   searchBox, debounceTimeout, nextTimer, backendCart, cartItems,
                   effectRuns, crashed, dupWarnings, failed>>
    /\ UNCHANGED pureVars
    /\ UNCHANGED sessionVars
    /\ UNCHANGED clickVars

\* onKeyPress with e.key === "Enter": performSearch(searchBox), result dropped.
PressEnter(target) ==
    /\ PageLive
    /\ requestsSent < MaxRequests
    /\ msgs' = Send(msgs, performSearch(searchBox, "none"))
    /\ requestsSent' = requestsSent + 1
    /\ UNCHANGED <<localStorage, route, isBusyLoading, products, cartKind, cart,
                   searchBox, debounceTimeout, timers, nextTimer, backendCart,
                   cartItems, effectRuns, crashed, dupWarnings, failed>>
    /\ UNCHANGED pureVars
    /\ UNCHANGED sessionVars
    /\ UNCHANGED clickVars

\* onClick of the search icon: performSearch(searchBox).then(setProducts).
ClickSearchIcon(target) ==
    /\ PageLive
    /\ requestsSent < MaxRequests
    /\ msgs' = Send(msgs, performSearch(searchBox, "setProducts"))
    /\ requestsSent' = requestsSent + 1
    /\ UNCHANGED <<localStorage, route, isBusyLoading, products, cartKind, cart,
                   searchBox, debounceTimeout, timers, nextTimer, backendCart,
                   cartItems, effectRuns, crashed, dupWarnings, failed>>
    /\ UNCHANGED pureVars
    /\ UNCHANGED sessionVars
    /\ UNCHANGED clickVars

\* Outcomes of GET /products as performAPICall tells them apart.
LoadOutcomes == {"200", "other", "error", "unreachable"}

\* What performAPICall resolves to.
performAPICall(outcome) == IF outcome = "200" THEN Catalog ELSE <<>>

\* The initial product request completes:
\* performAPICall().then((data) => { setIsBusyLoading(false); setProducts(data) })
DeliverProducts(m, outcome) ==
    /\ m \in Pending("products")
    /\ msgs' = Take(msgs, m)
    /\ failed' = (failed \/ outcome # "200")
    /\ IF PageLive
       THEN isBusyLoading' = FALSE /\ products' = performAPICall(outcome)
       ELSE UNCHANGED <<isBusyLoading, products>>
    /\ UNCHANGED <<localStorage, route, cartKind, cart, searchBox,
                   debounceTimeout, timers, nextTimer, requestsSent, backendCart,
                   cartItems, effectRuns, crashed, dupWarnings>>
    /\ UNCHANGED pureVars
    /\ UNCHANGED sessionVars
    /\ UNCHANGED clickVars

\* Outcomes of a search request: the backend's answer (200 with the hits, 404
\* when there are none), another 2xx status, an error response with another
\* status, no response at all.
SearchOutcomes(text) ==
    (IF SearchResult(text) # <<>> THEN {"200"} ELSE {"404"})
        \cup {"other", "error", "unreachable"}

\* The products state after the response of a search is handled.
\*  - 200: performSearch returns res.data;
\*  - other 2xx, error response: it returns [];
\*  - 404: it calls setProducts([]) itself, then returns [];
\*  - no response: error.response.status throws inside the catch block, the
\*    promise is rejected and nothing is set.
ProductsAfterSearch(current, m, outcome) ==
    IF outcome = "unreachable" THEN current
    ELSE IF outcome = "404" THEN <<>>
    ELSE IF m.then # "setProducts" THEN current
    ELSE IF outcome = "200" THEN SearchResult(m.text)
    ELSE <<>>

DeliverSearch(m, outcome) ==
    /\ m \in Pending("search")
    /\ outcome \in SearchOutcomes(m.text)
    /\ msgs' = Take(msgs, m)
    /\ failed' = (failed \/ outcome \in {"other", "error", "unreachable"})
    /\ products' = IF PageLive THEN ProductsAfterSearch(products, m, outcome)
                   ELSE products
    /\ UNCHANGED <<localStorage, route, isBusyLoading, cartKind, cart, searchBox,
                   debounceTimeout, timers, nextTimer, requestsSent, backendCart,
                   cartItems, effectRuns, crashed, dupWarnings>>
    /\ UNCHANGED pureVars
    /\ UNCHANGED sessionVars
    /\ UNCHANGED clickVars

----------------------------------------------------------------------------
\* Cart: the initial fetch, quantity buttons, add to cart, responses

\* The backend answers GET /cart with the cart it holds, or fails.
BackendAnswerCart(m, outcome) ==
    /\ m \in Pending("cart")
    /\ msgs' = Send(Take(msgs, m),
                    [m EXCEPT !.status = outcome,
                              !.data = IF outcome = "200" THEN backendCart
                                       ELSE <<>>])
    /\ failed' = (failed \/ outcome # "200")
    /\ UNCHANGED <<localStorage, route, isBusyLoading, products, cartKind, cart,
                   searchBox, debounceTimeout, timers, nextTimer, requestsSent,
                   backendCart, cartItems, effectRuns, crashed, dupWarnings>>
    /\ UNCHANGED pureVars
    /\ UNCHANGED sessionVars
    /\ UNCHANGED clickVars

\* fetchCart(token).then((data) => setCart(data)): res.data, or null when
\* the request failed.
DeliverCart(m) ==
    /\ m \in InFlight
    /\ m.kind = "cart"
    /\ m.status # "pending"
    /\ msgs' = Take(msgs, m)
    /\ IF m.status = "200" THEN SetCart("list", m.data) ELSE SetCart("null", <<>>)
    /\ UNCHANGED <<localStorage, route, isBusyLoading, products, searchBox,
                   debounceTimeout, timers, nextTimer, requestsSent, backendCart,
                   dupWarnings, failed>>
    /\ UNCHANGED pureVars
    /\ UNCHANGED sessionVars
    /\ UNCHANGED clickVars

\* items.find(item => item.productId === productId), as a truth value
ItemFound(items, productId) ==
    \E i \in 1..Len(items) : items[i].productId = productId

\* addToCart pushing "/login" for a missing token and sending the POST all
\* the same
addToCart_NoReturn(productId, qty, preventDuplicate) ==
    /\ route' = IF localStorage.token = "null" THEN "/login" ELSE route
    /\ msgs' = Send(msgs, CartPost(productId, qty))
    /\ requestsSent' = requestsSent + 1
    /\ UNCHANGED dupWarnings

\* addToCart(token, items, products, productId, qty, options), up to the
\* await of the POST; items is the cart state of Products.
addToCart(productId, qty, preventDuplicate) ==
    IF localStorage.token = "null"
    THEN \* history.push("/login"); return
         /\ route' = "/login"
         /\ UNCHANGED <<msgs, requestsSent, dupWarnings>>
    ELSE IF preventDuplicate /\ cartKind # "list"
    THEN \* items.find on null or undefined throws: the promise is rejected
         UNCHANGED <<route, msgs, requestsSent, dupWarnings>>
    ELSE /\ dupWarnings' = IF preventDuplicate /\ ItemFound(cart, productId)
                           THEN dupWarnings + 1 ELSE dupWarnings
         /\ msgs' = Send(msgs, CartPost(productId, qty))
         /\ requestsSent' = requestsSent + 1
         /\ UNCHANGED route

\* The rows of the Cart view: none while items is empty.
CartRows == IF cartKind = "list" /\ Len(cart) > 0 THEN 1..Len(cartItems) ELSE {}

\* handleAdd of a cart row: handleQuantity(item.productId, item.qty + 1)
ClickItemAdd(i) ==
    /\ PageLive
    /\ CartRendered
    /\ i \in CartRows
    /\ requestsSent < MaxRequests
    /\ cartItems[i].qty + 1 <= MaxQty
    /\ addToCart(cartItems[i].productId, cartItems[i].qty + 1, FALSE)
    /\ expectedQty' = [expectedQty EXCEPT ![cartItems[i].productId] = @ + 1]
    /\ UNCHANGED <<localStorage, isBusyLoading, products, cartKind, cart,
                   searchBox, debounceTimeout, timers, nextTimer, backendCart,
                   cartItems, effectRuns, crashed, failed, cardClicked>>
    /\ UNCHANGED pureVars
    /\ UNCHANGED sessionVars

\* handleDelete of a cart row: handleQuantity(item.productId, item.qty - 1)
ClickItemDelete(i) ==
    /\ PageLive
    /\ CartRendered
    /\ i \in CartRows
    /\ requestsSent < MaxRequests
    /\ addToCart(cartItems[i].productId, cartItems[i].qty - 1, FALSE)
    /\ expectedQty' = [expectedQty EXCEPT ![cartItems[i].productId] = @ - 1]
    /\ UNCHANGED <<localStorage, isBusyLoading, products, cartKind, cart,
                   searchBox, debounceTimeout, timers, nextTimer, backendCart,
                   cartItems, effectRuns, crashed, failed, cardClicked>>
    /\ UNCHANGED pureVars
    /\ UNCHANGED sessionVars

\* handleAddToCart of the card of products[p]:
\* addToCart(token, cart, products, product._id, 1, { preventDuplicate: true })
HandleAddToCart(p) ==
    /\ PageLive
    /\ ~isBusyLoading
    /\ p \in 1..Len(products)
    /\ requestsSent < MaxRequests
    /\ addToCart(products[p]._id, 1, TRUE)
    /\ UNCHANGED <<localStorage, isBusyLoading, products, cartKind, cart,
                   searchBox, debounceTimeout, timers, nextTimer, backendCart,
                   cartItems, effectRuns, crashed, failed>>
    /\ UNCHANGED pureVars
    /\ UNCHANGED sessionVars
    /\ UNCHANGED clickVars

\* A click on the "Add to cart" button of the card of products[p]. The
\* Button of ProductCard is given no onClick and the card never reads its
\* handleAddToCart prop: the click runs no code of the page.
ClickAddToCart(p) ==
    /\ PageLive
    /\ ~isBusyLoading
    /\ p \in 1..Len(products)
    /\ cardClicked' = products[p]._id
    /\ UNCHANGED <<localStorage, route, isBusyLoading, products, cartKind, cart,
                   searchBox, debounceTimeout, timers, nextTimer, msgs,
                   requestsSent, backendCart, cartItems, effectRuns, crashed,
                   dupWarnings, failed, expectedQty>>
    /\ UNCHANGED pureVars
    /\ UNCHANGED sessionVars

\* The backend handles POST /cart: it updates its cart and answers with the
\* updated list, or rejects the request.
BackendAnswerPost(m, outcome) ==
    /\ m \in Pending("post")
    /\ backendCart' = IF outcome = "200"
                      THEN BackendSetQty(backendCart, m.productId, m.qty)
                      ELSE backendCart
    /\ msgs' = Send(Take(msgs, m),
                    [m EXCEPT !.status = outcome,
                              !.data = IF outcome = "200" THEN backendCart'
                                       ELSE <<>>])
    /\ failed' = (failed \/ outcome # "200")
    /\ UNCHANGED <<localStorage, route, isBusyLoading, products, cartKind, cart,
                   searchBox, debounceTimeout, timers, nextTimer, requestsSent,
                   cartItems, effectRuns, crashed, dupWarnings>>
    /\ UNCHANGED pureVars
    /\ UNCHANGED sessionVars
    /\ UNCHANGED clickVars

\* addToCart after the await: setCart(res.data), or a snackbar on failure.
DeliverPost(m) ==
    /\ m \in InFlight
    /\ m.kind = "post"
    /\ m.status # "pending"
    /\ msgs' = Take(msgs, m)
    /\ IF m.status = "200" THEN SetCart("list", m.data)
       ELSE UNCHANGED <<cartKind, cart, cartItems, effectRuns, crashed>>
    /\ UNCHANGED <<localStorage, route, isBusyLoading, products, searchBox,
                   debounceTimeout, timers, nextTimer, requestsSent, backendCart,
                   dupWarnings, failed>>
    /\ UNCHANGED pureVars
    /\ UNCHANGED sessionVars
    /\ UNCHANGED clickVars

----------------------------------------------------------------------------
\* Spec: the Products page as its interface drives it.

Next ==
    \/ \E target \in Targets, text \in Texts : Keystroke(target, text)
    \/ \E t \in timers : TimerFire(t)
    \/ \E target \in Targets : PressEnter(target)
    \/ \E target \in Targets : ClickSearchIcon(target)
    \/ \E m \in InFlight, outcome \in LoadOutcomes : DeliverProducts(m, outcome)
    \/ \E m \in InFlight, outcome \in {"200", "404", "other", "error", "unreachable"} :
            DeliverSearch(m, outcome)
    \/ \E m \in InFlight, outcome \in {"200", "error"} : BackendAnswerCart(m, outcome)
    \/ \E m \in InFlight : DeliverCart(m)
    \/ \E i \in 1..Len(cartItems) : ClickItemAdd(i)
    \/ \E i \in 1..Len(cartItems) : ClickItemDelete(i)
    \/ \E m \in InFlight, outcome \in {"200", "error"} : BackendAnswerPost(m, outcome)
    \/ \E m \in InFlight : DeliverPost(m)

Spec == Init /\ [][Next]_vars

\* SpecHandlers: Spec, and the handleAddToCart prop of a product card invoked.
NextHandlers ==
    \/ Next
    \/ \E p \in 1..Len(products) : HandleAddToCart(p)

SpecHandlers == Init /\ [][NextHandlers]_vars

\* SpecLive: Spec, where every request is answered in the end (by a response,
\* or by the error of a connection that failed or timed out), every
\* continuation of a settled promise runs and every timer set fires. Nothing
\* is assumed of the user.
Settles ==
    /\ WF_vars(\E m \in InFlight, outcome \in LoadOutcomes :
                    DeliverProducts(m, outcome))
    /\ WF_vars(\E m \in InFlight,
                   outcome \in {"200", "404", "other", "error", "unreachable"} :
                    DeliverSearch(m, outcome))
    /\ WF_vars(\E m \in InFlight, outcome \in {"200", "error"} :
                    BackendAnswerCart(m, outcome))
    /\ WF_vars(\E m \in InFlight : DeliverCart(m))
    /\ WF_vars(\E m \in InFlight, outcome \in {"200", "error"} :
                    BackendAnswerPost(m, outcome))
    /\ WF_vars(\E m \in InFlight : DeliverPost(m))
    /\ WF_vars(\E t \in timers : TimerFire(t))

SpecLive == Init /\ [][Next]_vars /\ Settles

\* SpecCards: Spec, and the clicks on the "Add to cart" buttons observed.
NextCards ==
    \/ Next
    \/ \E p \in 1..Len(products) : ClickAddToCart(p)

SpecCards == Init /\ [][NextCards]_vars

----------------------------------------------------------------------------
\* Properties

\* Every cart line has a product of that identifier in the catalog.
AllLinesMatch(lines, catalog) ==
    \A i \in 1..Len(lines) :
        \E j \in 1..Len(catalog) : catalog[j]._id = lines[i].productId

\* C1: when every line's productId is in the catalog, generateCartItemsFrom
\* returns a list as long as the cart lines, in their order, the i-th item
\* holding the quantity of line i and the name, category, cost, rating, image
\* and id of a product of the catalog that has the line's productId.
C1_ReconcileJoinsLinesToProducts ==
    (genStatus # "none" /\ AllLinesMatch(cartData, productsData)) =>
        /\ genStatus = "returned"
        /\ Len(genItems) = Len(cartData)
        /\ \A i \in 1..Len(cartData) :
            /\ genItems[i].qty = cartData[i].qty
            /\ genItems[i].productId = cartData[i].productId
            /\ \E j \in 1..Len(productsData) :
                /\ productsData[j]._id = cartData[i].productId
                /\ genItems[i].name = productsData[j].name
                /\ genItems[i].category = productsData[j].category
                /\ genItems[i].cost = productsData[j].cost
                /\ genItems[i].rating = productsData[j].rating
                /\ genItems[i].image = productsData[j].image

\* Two lines of different products were reconciled.
C1_Witness ==
    /\ genStatus = "returned"
    /\ Len(cartData) = 2
    /\ cartData[1].productId # cartData[2].productId
    /\ genItems[1].cost # genItems[2].cost

\* C2: when a cart line's productId has no product in the catalog,
\* generateCartItemsFrom ends in an explicit error outcome: it neither
\* crashes on the missing match (TypeError) nor returns a list.
C2_DanglingLineIsExplicitError ==
    (genStatus # "none" /\ ~AllLinesMatch(cartData, productsData)) =>
        (genStatus # "TypeError" /\ genStatus # "returned")

\* C3: each time the Cart effect reconciles its items, every cart line's
\* productId is in the products list the Cart was given.
C3_ReconcileInputsMatch ==
    [][effectRuns' # effectRuns => AllLinesMatch(cart', products')]_vars

\* Sums over the items at the indices S, taken from the last index down.
RECURSIVE SumCostQty(_, _)
SumCostQty(items, S) ==
    IF S = {} THEN 0
    ELSE LET i == CHOOSE k \in S : \A l \in S : k >= l IN
         items[i].qty * items[i].cost + SumCostQty(items, S \ {i})

RECURSIVE SumQty(_, _)
SumQty(items, S) ==
    IF S = {} THEN 0
    ELSE LET i == CHOOSE k \in S : \A l \in S : k >= l IN
         items[i].qty + SumQty(items, S \ {i})

\* C4: getTotalCartValue(items) is the sum over the items of cost * qty,
\* and 0 for the empty list.
C4_TotalValueIsSumOfCostTimesQty ==
    valueStatus = "returned" =>
        /\ valueResult = SumCostQty(genItems, DOMAIN genItems)
        /\ genItems = <<>> => valueResult = 0

\* The total of two items, one of them with a quantity above 1.
C4_Witness ==
    /\ valueStatus = "returned"
    /\ Len(genItems) = 2
    /\ genItems[1].qty > 1
    /\ valueResult > 0

\* C5: getTotalItems(items) is the sum over the items of qty, and 0 both for
\* the empty list and when it is called without an argument.
C5_TotalItemsIsSumOfQty ==
    countStatus = "returned" =>
        /\ argKind = "list" => countResult = SumQty(genItems, DOMAIN genItems)
        /\ (argKind = "list" /\ genItems = <<>>) => countResult = 0
        /\ argKind = "undefined" => countResult = 0

\* The count of two items, one of them with a quantity above 1.
C5_Witness ==
    /\ countStatus = "returned"
    /\ argKind = "list"
    /\ Len(genItems) = 2
    /\ genItems[2].qty > 1
    /\ countResult > 2

\* C6: isItemInCart(items, productId) returns true when some element of
\* items has that productId and false otherwise.
C6_IsItemInCartTellsPresence ==
    inCartResult # "none" =>
        inCartResult = (IF ItemFound(cartData, inCartId) THEN "true" ELSE "false")

\* C7: an "add to cart" for a product already in the cart (the duplicate
\* warning is shown) sends no cart-update request and leaves the cart alone.
C7_DuplicateAddIsPrevented ==
    [][dupWarnings' # dupWarnings =>
            (msgs' = msgs /\ cart' = cart /\ backendCart' = backendCart)]_vars

\* C8: after any sequence of keystrokes in the two search fields at most one
\* delayed search is pending.
C8_AtMostOneDelayedSearch == Cardinality(timers) <= 1

\* The second keystroke came while the timer of the first was pending: only
\* the second timer is left and no search was sent.
C8_Witness ==
    /\ nextTimer = 3
    /\ timers = {2}
    /\ requestsSent = 0

\* Search requests in flight
SearchesInFlight(bag) ==
    BagCardinality([m \in { x \in BagToSet(bag) : x.kind = "search" }
                        |-> CopiesIn(m, bag)])

\* C9 as stated: no second search request is sent while an earlier one has
\* not completed.
C9_OneSearchInFlight == SearchesInFlight(msgs) <= 1

\* The debounce timer expires: a pending timer is gone and none was set.
TimerExpires == timers' # timers /\ timers' \subseteq timers

\* C9, amended: a keystroke sends no request, and each pause in typing (the
\* expiry of the debounce timer) sends exactly one search request, for the
\* text of the search box, and leaves no delayed search pending.
C9_OneSearchPerPause ==
    [][/\ searchBox' # searchBox => msgs' = msgs
       /\ TimerExpires =>
            /\ SearchesInFlight(msgs') = SearchesInFlight(msgs) + 1
            /\ CopiesIn(performSearch(searchBox, "setProducts"), msgs')
                 = CopiesIn(performSearch(searchBox, "setProducts"), msgs) + 1
            /\ timers' = {}]_vars

\* Two keystrokes, then one pause: one search, for the last text, in flight.
C9_Witness ==
    /\ nextTimer = 3
    /\ timers = {}
    /\ requestsSent = 1
    /\ BagIn(performSearch(searchBox, "setProducts"), msgs)

\* C10: once typing has stopped and the initial load and every search have
\* completed successfully, the products displayed are the search result for
\* the last text typed.
C10_LatestKeystrokeWins ==
    ( /\ PageLive
      /\ nextTimer > 1
      /\ timers = {}
      /\ Pending("products") = {}
      /\ Pending("search") = {}
      /\ ~failed ) => products = SearchResult(searchBox)

----------------------------------------------------------------------------
\* SpecPure: the cart helpers applied to inputs drawn from bounded sets.

PageIdle ==
    /\ localStorage = LoggedOut
    /\ route = "/"
    /\ isBusyLoading = TRUE
    /\ products = <<>>
    /\ cartKind = "undefined"
    /\ cart = <<>>
    /\ searchBox = ""
    /\ debounceTimeout = 0
    /\ timers = {}
    /\ nextTimer = 1
    /\ msgs = EmptyBag
    /\ requestsSent = 0
    /\ backendCart = <<>>
    /\ cartItems = <<>>
    /\ effectRuns = 0
    /\ crashed = FALSE
    /\ dupWarnings = 0
    /\ failed = FALSE
    /\ NothingClicked

InitPure ==
    /\ \/ /\ cartData \in SeqsUpTo(CartLines, MaxLen)
          /\ productsData \in SeqsUpTo(ProductPool, MaxCatalog)
       \/ /\ cartData \in {ScenarioCart, <<>>}
          /\ productsData = ScenarioCatalog
    /\ genStatus = "none"
    /\ genItems = <<>>
    /\ argKind \in {"list", "undefined"}
    /\ valueStatus = "none"
    /\ valueResult = 0
    /\ countStatus = "none"
    /\ countResult = 0
    /\ inCartId \in ProductIds
    /\ inCartResult = "none"
    /\ PageIdle
    /\ SessionIdle

\* generateCartItemsFrom(cartData, productsData)
CallGenerateCartItemsFrom ==
    /\ genStatus = "none"
    /\ genStatus' = generateCartItemsFrom(cartData, productsData).status
    /\ genItems' = generateCartItemsFrom(cartData, productsData).items
    /\ UNCHANGED <<cartData, productsData, argKind, valueStatus, valueResult,
                   countStatus, countResult, inCartId, inCartResult>>
    /\ UNCHANGED pageVars
    /\ UNCHANGED sessionVars

\* getTotalCartValue(items), items being the reconciled list, or nothing
\* (undefined.reduce throws).
CallGetTotalCartValue ==
    /\ genStatus = "returned"
    /\ valueStatus = "none"
    /\ IF argKind = "undefined"
       THEN valueStatus' = "TypeError" /\ valueResult' = 0
       ELSE valueStatus' = "returned" /\ valueResult' = getTotalCartValue(genItems)
    /\ UNCHANGED <<cartData, productsData, genStatus, genItems, argKind,
                   countStatus, countResult, inCartId, inCartResult>>
    /\ UNCHANGED pageVars
    /\ UNCHANGED sessionVars

\* getTotalItems(items), or getTotalItems()
CallGetTotalItems ==
    /\ genStatus = "returned"
    /\ countStatus = "none"
    /\ countStatus' = "returned"
    /\ countResult' = getTotalItems(argKind, genItems)
    /\ UNCHANGED <<cartData, productsData, genStatus, genItems, argKind,
                   valueStatus, valueResult, inCartId, inCartResult>>
    /\ UNCHANGED pageVars
    /\ UNCHANGED sessionVars

\* isItemInCart(cartData, inCartId)
CallIsItemInCart ==
    /\ inCartResult = "none"
    /\ inCartResult' = isItemInCart(cartData, inCartId)
    /\ UNCHANGED <<cartData, productsData, genStatus, genItems, argKind,
                   valueStatus, valueResult, countStatus, countResult, inCartId>>
    /\ UNCHANGED pageVars
    /\ UNCHANGED sessionVars

NextPure ==
    \/ CallGenerateCartItemsFrom
    \/ CallGetTotalCartValue
    \/ CallGetTotalItems
    \/ CallIsItemInCart

SpecPure == InitPure /\ [][NextPure]_vars

----------------------------------------------------------------------------
\* The session pages: Login, Register, Header, Checkout

\* requests the session pages send, on clicks and on mounting Checkout
MaxSessionRequests == 2

\* Wallet balances the backend reports at login
Balances == {5, 10}

\* The cart the backend holds when the session starts
SessionCart == << [productId |-> "p2", qty |-> 1] >>

\* Identifiers the backend gives to addresses, in the order it creates them
AddressIds == << "a1", "a2", "a3" >>

\* Texts typed into the fields of the Login and Register forms: one shorter
\* than the 6 characters the forms ask for, one long enough
FormTexts == {"abc", "crio.do"}

\* String.prototype.length of those texts
Length(str) ==
    CASE str = "" -> 0
      [] str = "abc" -> 3
      [] str = "crio.do" -> 7

SessInFlight == BagToSet(sessMsgs)

SessPending(kind) ==
    { m \in SessInFlight : m.kind = kind /\ m.status = "pending" }

SessAnswered(kind) ==
    { m \in SessInFlight : m.kind = kind /\ m.status # "pending" }

OrphanedMsg(m) == [m EXCEPT !.live = FALSE]

\* The requests in flight after the component that sent them unmounted: their
\* continuations still run, their state setters do nothing.
Orphaned(bag) == BagOfAll(OrphanedMsg, bag)

\* The Products page, of which these pages use nothing
ProductsIdle ==
    /\ isBusyLoading = TRUE
    /\ products = <<>>
    /\ cartKind = "undefined"
    /\ cart = <<>>
    /\ searchBox = ""
    /\ debounceTimeout = 0
    /\ timers = {}
    /\ nextTimer = 1
    /\ msgs = EmptyBag
    /\ requestsSent = 0
    /\ cartItems = <<>>
    /\ effectRuns = 0
    /\ dupWarnings = 0
    /\ failed = FALSE
    /\ NothingClicked

\* A route change (history.push, a Link, the back button) to the route `to`,
\* the requests in flight being bag and the storage ls: the page shown
\* unmounts and the page of the new route mounts with its initial state.
\* Checkout's mount effect pushes "/login" when there is no token, and
\* otherwise starts onLoadHandler, which first awaits getProducts().
GoTo(to, bag, ls) ==
    IF crashed
    THEN /\ route' = to
         /\ sessMsgs' = bag
         /\ UNCHANGED <<sessSent, isBusy, form, checkoutItems, addresses,
                        newAddress>>
    ELSE IF to = route
    THEN /\ sessMsgs' = bag
         /\ UNCHANGED <<route, sessSent, isBusy, form, checkoutItems, addresses,
                        newAddress>>
    ELSE LET target == IF to = "/checkout" /\ ls.token = "null"
                       THEN "/login" ELSE to
         IN  /\ route' = target
             /\ isBusy' = FALSE
             /\ form' = EmptyForm
             /\ checkoutItems' = <<>>
             /\ addresses' = NoAddresses
             /\ newAddress' = FALSE
             /\ IF target = "/checkout"
                THEN /\ sessMsgs' = Send(Orphaned(bag),
                                         MkReq("ck-products", "", 0))
                     /\ sessSent' = sessSent + 1
                ELSE /\ sessMsgs' = Orphaned(bag)
                     /\ UNCHANGED sessSent

\* The user follows a link of the page shown or goes back or forward in the
\* browser history.
Navigate(to) ==
    /\ ~crashed
    /\ to # route
    /\ (to = "/checkout" /\ localStorage.token # "null")
            => sessSent < MaxSessionRequests
    /\ GoTo(to, sessMsgs, localStorage)
    /\ lastOp' = Did("other")
    /\ UNCHANGED <<localStorage, backendCart, backendAddrs, crashed>>
    /\ UNCHANGED productsVars
    /\ UNCHANGED pureVars

----------------------------------------------------------------------------
\* Login (src/components/ProductCard.js, lines 40-243)

\* validateInput(data) of Login
validateInput(username, password) ==
    IF Length(username) = 0 THEN FALSE
    ELSE IF Length(username) < 6 THEN FALSE
    ELSE IF Length(password) = 0 THEN FALSE
    ELSE IF Length(password) < 6 THEN FALSE
    ELSE TRUE

\* persistLogin storing the username as the token and the token as the username
persistLogin_Swapped(token, username, balance) ==
    [token |-> username, username |-> token, balance |-> toString(balance)]

\* persistLogin(token, username, balance): three setItem calls; setItem
\* stores the string of the number it is given.
persistLogin(token, username, balance) ==
    [token |-> token, username |-> username, balance |-> toString(balance)]

\* The Login form filled in (onChange of each field) and LOGIN TO QKART
\* clicked: login({username, password}) up to the await, or to its end when
\* the input is invalid
ClickLogin(username, password) ==
    /\ route = "/login"
    /\ ~crashed
    /\ ~isBusy
    /\ sessSent < MaxSessionRequests
    /\ form' = [form EXCEPT !.username = username, !.password = password]
    /\ isBusy' = TRUE
    /\ lastOp' = Did("loginClick")
    /\ IF validateInput(username, password)
       THEN /\ sessMsgs' = Send(sessMsgs, MkReq("login", username, 0))
            /\ sessSent' = sessSent + 1
       ELSE UNCHANGED <<sessMsgs, sessSent>>
    /\ UNCHANGED <<localStorage, route, backendCart, crashed, checkoutItems,
                   addresses, newAddress, backendAddrs>>
    /\ UNCHANGED productsVars
    /\ UNCHANGED pureVars

\* The backend answers POST /auth/login: 201 with token, username and
\* balance, another 2xx status, 400, or not at all.
BackendAnswerLogin(m, outcome, balance) ==
    /\ m \in SessPending("login")
    /\ outcome # "201" => balance = 0
    /\ sessMsgs' = Send(Take(sessMsgs, m),
                        IF outcome = "201"
                        THEN [m EXCEPT !.status = outcome, !.token = "tok",
                                       !.username = m.arg, !.balance = balance]
                        ELSE [m EXCEPT !.status = outcome])
    /\ lastOp' = Did("other")
    /\ UNCHANGED <<localStorage, route, backendCart, crashed, sessSent, isBusy, form,
                   checkoutItems, addresses, newAddress, backendAddrs>>
    /\ UNCHANGED productsVars
    /\ UNCHANGED pureVars

\* login after the await
DeliverLogin(m) ==
    /\ m \in SessAnswered("login")
    /\ IF m.status = "201"
       THEN /\ localStorage' = persistLogin(m.token, m.username, m.balance)
            /\ GoTo("/", Take(sessMsgs, m), localStorage')
            /\ lastOp' = DidWith("login", m)
       ELSE /\ sessMsgs' = Take(sessMsgs, m)
            /\ lastOp' = DidWith("login", m)
            /\ isBusy' = IF m.status # "200" /\ m.live /\ ~crashed
                         THEN FALSE ELSE isBusy
            /\ UNCHANGED <<localStorage, route, sessSent, form, checkoutItems,
                           addresses, newAddress>>
    /\ UNCHANGED <<backendCart, crashed, backendAddrs>>
    /\ UNCHANGED productsVars
    /\ UNCHANGED pureVars

----------------------------------------------------------------------------
\* Register (src/components/Register.js)

\* validateInput(data) of Register
validateRegistration(username, password, confirmPassword) ==
    validateInput(username, password) /\ password = confirmPassword

\* The Register form filled in and REGISTER NOW clicked:
\* register({username, password, confirmPassword}) up to the await, or to
\* its end when the input is invalid
ClickRegister(username, password, confirmPassword) ==
    /\ route = "/register"
    /\ ~crashed
    /\ ~isBusy
    /\ sessSent < MaxSessionRequests
    /\ form' = [username |-> username, password |-> password,
                confirmPassword |-> confirmPassword]
    /\ lastOp' = Did("register")
    /\ IF validateRegistration(username, password, confirmPassword)
       THEN /\ isBusy' = TRUE
            /\ sessMsgs' = Send(sessMsgs, MkReq("register", username, 0))
            /\ sessSent' = sessSent + 1
       ELSE UNCHANGED <<isBusy, sessMsgs, sessSent>>
    /\ UNCHANGED <<localStorage, route, backendCart, crashed, checkoutItems,
                   addresses, newAddress, backendAddrs>>
    /\ UNCHANGED productsVars
    /\ UNCHANGED pureVars

\* register storing the name of the new user
StorageAfterRegister_Persists(ls, m) == [ls EXCEPT !.username = m.arg]

\* The storage after register() has handled a response: register calls no
\* method of localStorage.
StorageAfterRegister(ls, m) == ls

\* register after the await: on 201 the fields are emptied and
\* history.push("/login") unmounts the form; setIsBusy(false) in any case
DeliverRegister(m, outcome) ==
    /\ m \in SessPending("register")
    /\ IF outcome = "201"
       THEN GoTo("/login", Take(sessMsgs, m), localStorage)
       ELSE /\ sessMsgs' = Take(sessMsgs, m)
            /\ isBusy' = IF m.live /\ ~crashed THEN FALSE ELSE isBusy
            /\ UNCHANGED <<route, sessSent, form, checkoutItems, addresses,
                           newAddress>>
    /\ lastOp' = Did("register")
    /\ localStorage' = StorageAfterRegister(localStorage, m)
    /\ UNCHANGED <<backendCart, crashed, backendAddrs>>
    /\ UNCHANGED productsVars
    /\ UNCHANGED pureVars

----------------------------------------------------------------------------
\* Header (src/components/Header.js)

\* A clear that removes token and username only
localStorageClear_KeepsBalance(ls) ==
    [ls EXCEPT !.token = "null", !.username = "null"]

\* window.localStorage.clear(): no key is left.
localStorageClear(ls) == LoggedOut

\* logout(): localStorage.clear() and window.location.reload(). The reload
\* ends every pending continuation and mounts the page of the route again,
\* which for Checkout, now without a token, pushes "/login".
Logout ==
    /\ route \in {"/", "/checkout"}
    /\ ~crashed
    /\ localStorage.username # "null"
    /\ localStorage' = localStorageClear(localStorage)
    /\ sessMsgs' = EmptyBag
    /\ route' = IF route = "/checkout" THEN "/login" ELSE route
    /\ isBusy' = FALSE
    /\ form' = EmptyForm
    /\ checkoutItems' = <<>>
    /\ addresses' = NoAddresses
    /\ newAddress' = FALSE
    /\ lastOp' = Did("logout")
    /\ UNCHANGED <<backendCart, crashed, sessSent, backendAddrs>>
    /\ UNCHANGED productsVars
    /\ UNCHANGED pureVars

----------------------------------------------------------------------------
\* Checkout (src/unnamed/part_001, lines 128-647)

\* The read-only Cart that Checkout renders displays items and products and
\* has no handler; getProducts' setProducts feeds only that display.

\* The Checkout page is mounted and its handlers can run; its mount effect
\* let it stay, so a token is stored.
CheckoutLive == route = "/checkout" /\ ~crashed

\* The state setters of the component that sent m still have an effect.
Mounted(m) == m.live /\ ~crashed

\* getProducts() of onLoadHandler returns: the list on 200, null or undefined
\* otherwise; then fetchCart(token) sends GET /cart.
DeliverCkProducts(m, outcome) ==
    /\ m \in SessPending("ck-products")
    /\ sessMsgs' = Send(Take(sessMsgs, m),
                        [MkReq("ck-cart", "", 0) EXCEPT
                            !.live = m.live,
                            !.productsOk = (outcome = "200")])
    /\ lastOp' = Did("other")
    /\ UNCHANGED <<localStorage, route, backendCart, crashed, sessSent, isBusy, form,
                   checkoutItems, addresses, newAddress, backendAddrs>>
    /\ UNCHANGED productsVars
    /\ UNCHANGED pureVars

\* fetchCart(token) of onLoadHandler returns: the cart lines the backend
\* holds, or null; then getAddresses(token) sends GET /user/addresses.
DeliverCkCart(m, outcome) ==
    /\ m \in SessPending("ck-cart")
    /\ sessMsgs' = Send(Take(sessMsgs, m),
                        [MkReq("ck-addresses", "", 0) EXCEPT
                            !.live = m.live,
                            !.productsOk = m.productsOk,
                            !.cartOk = (outcome = "200"),
                            !.lines = IF outcome = "200" THEN backendCart
                                      ELSE <<>>])
    /\ lastOp' = Did("other")
    /\ UNCHANGED <<localStorage, route, backendCart, crashed, sessSent, isBusy,
                   form, checkoutItems, addresses, newAddress, backendAddrs>>
    /\ UNCHANGED productsVars
    /\ UNCHANGED pureVars

\* The end of onLoadHandler: getAddresses sets all and returns the addresses
\* the backend holds, or returns null; then, in the same turn,
\* setAddresses({all: addressesData, selected: ""}); and,
\* with products and cart both fetched,
\* setItems(generateCartItemsFrom(cartData, productsData)). An error thrown
\* by generateCartItemsFrom rejects the promise of onLoadHandler and leaves
\* items as it was. With all null the render reads addresses.all.length
\* and throws.
DeliverCkAddresses(m, outcome) ==
    /\ m \in SessPending("ck-addresses")
    /\ sessMsgs' = Take(sessMsgs, m)
    /\ lastOp' = Did("other")
    /\ IF ~Mounted(m)
       THEN UNCHANGED <<addresses, checkoutItems, crashed>>
       ELSE LET r == generateCartItemsFrom(m.lines, Catalog) IN
            /\ addresses' = IF outcome = "200"
                            THEN [kind |-> "list", all |-> backendAddrs,
                                  selected |-> ""]
                            ELSE [kind |-> "null", all |-> <<>>,
                                  selected |-> ""]
            /\ crashed' = (outcome # "200")
            /\ checkoutItems' =
                    IF m.productsOk /\ m.cartOk /\ r.status = "returned"
                    THEN r.items ELSE checkoutItems
    /\ UNCHANGED <<localStorage, route, backendCart, sessSent, isBusy, form,
                   newAddress, backendAddrs>>
    /\ UNCHANGED productsVars
    /\ UNCHANGED pureVars

\* onClick of an address box: setAddresses({...currAddresses, selected})
ClickAddress(i) ==
    /\ CheckoutLive
    /\ i \in 1..Len(addresses.all)
    /\ addresses.selected # addresses.all[i]
    /\ addresses' = [addresses EXCEPT !.selected = addresses.all[i]]
    /\ lastOp' = Did("other")
    /\ UNCHANGED <<localStorage, route, backendCart, crashed, sessMsgs, sessSent,
                   isBusy, form, checkoutItems, newAddress, backendAddrs>>
    /\ UNCHANGED productsVars
    /\ UNCHANGED pureVars

\* The form AddNewAddressView is shown.
AddressFormShown == newAddress \/ Len(addresses.all) = 0

\* onClick of "Add new address"
ClickAddNewAddress ==
    /\ CheckoutLive
    /\ ~AddressFormShown
    /\ newAddress' = TRUE
    /\ lastOp' = Did("other")
    /\ UNCHANGED <<localStorage, route, backendCart, crashed, sessMsgs, sessSent,
                   isBusy, form, checkoutItems, addresses, backendAddrs>>
    /\ UNCHANGED productsVars
    /\ UNCHANGED pureVars

\* onClick of Cancel: handleNewAddress({value: "", isAddingNewAddress: false})
ClickCancel ==
    /\ CheckoutLive
    /\ newAddress
    /\ newAddress' = FALSE
    /\ lastOp' = Did("other")
    /\ UNCHANGED <<localStorage, route, backendCart, crashed, sessMsgs, sessSent,
                   isBusy, form, checkoutItems, addresses, backendAddrs>>
    /\ UNCHANGED productsVars
    /\ UNCHANGED pureVars

\* onClick of Add: addAddress(token, newAddress) up to the await
ClickAdd ==
    /\ CheckoutLive
    /\ AddressFormShown
    /\ sessSent < MaxSessionRequests
    /\ sessMsgs' = Send(sessMsgs, MkReq("addAddress", "", 0))
    /\ sessSent' = sessSent + 1
    /\ lastOp' = Did("other")
    /\ UNCHANGED <<localStorage, route, backendCart, crashed, isBusy, form,
                   checkoutItems, addresses, newAddress, backendAddrs>>
    /\ UNCHANGED productsVars
    /\ UNCHANGED pureVars

\* Position in AddressIds of the identifier the backend gives next
NextAddress(addrs) ==
    IF addrs = <<>> THEN 1
    ELSE 1 + CHOOSE k \in 1..Len(AddressIds) : AddressIds[k] = addrs[Len(addrs)]

\* The backend handles POST /user/addresses, storing the address, and
\* addAddress goes on after the await: all the addresses, the last one
\* selected; or the request is rejected.
DeliverAddAddress(m, outcome) ==
    /\ m \in SessPending("addAddress")
    /\ outcome = "200" => NextAddress(backendAddrs) <= Len(AddressIds)
    /\ backendAddrs' = IF outcome = "200"
                       THEN Append(backendAddrs,
                                   AddressIds[NextAddress(backendAddrs)])
                       ELSE backendAddrs
    /\ sessMsgs' = Take(sessMsgs, m)
    /\ lastOp' = Did("other")
    /\ IF outcome = "200" /\ Mounted(m)
       THEN /\ addresses' = [kind |-> "list", all |-> backendAddrs',
                             selected |-> backendAddrs'[Len(backendAddrs')]]
            /\ newAddress' = FALSE
       ELSE UNCHANGED <<addresses, newAddress>>
    /\ UNCHANGED <<localStorage, route, backendCart, crashed, sessSent, isBusy,
                   form, checkoutItems>>
    /\ UNCHANGED productsVars
    /\ UNCHANGED pureVars

\* onClick of DELETE: deleteAddress(token, address._id) up to the await; the
\* click then reaches the address box around the button, which selects the
\* address.
ClickDelete(i) ==
    /\ CheckoutLive
    /\ i \in 1..Len(addresses.all)
    /\ sessSent < MaxSessionRequests
    /\ sessMsgs' = Send(sessMsgs, MkReq("deleteAddress", addresses.all[i], 0))
    /\ sessSent' = sessSent + 1
    /\ addresses' = [addresses EXCEPT !.selected = addresses.all[i]]
    /\ lastOp' = Did("other")
    /\ UNCHANGED <<localStorage, route, backendCart, crashed, isBusy, form,
                   checkoutItems, newAddress, backendAddrs>>
    /\ UNCHANGED productsVars
    /\ UNCHANGED pureVars

\* The addresses left when the one of that identifier is removed
RECURSIVE Without(_, _)
Without(addrs, id) ==
    IF addrs = <<>> THEN <<>>
    ELSE IF Head(addrs) = id THEN Without(Tail(addrs), id)
    ELSE << Head(addrs) >> \o Without(Tail(addrs), id)

\* The backend handles DELETE /user/addresses/:id and deleteAddress goes on
\* after the await: all the addresses, the first one selected; or the
\* request is rejected.
DeliverDeleteAddress(m, outcome) ==
    /\ m \in SessPending("deleteAddress")
    /\ backendAddrs' = IF outcome = "200" THEN Without(backendAddrs, m.arg)
                       ELSE backendAddrs
    /\ sessMsgs' = Take(sessMsgs, m)
    /\ lastOp' = Did("other")
    /\ IF outcome = "200" /\ Mounted(m)
       THEN addresses' = [kind |-> "list", all |-> backendAddrs',
                          selected |-> IF Len(backendAddrs') > 0
                                       THEN backendAddrs'[1] ELSE ""]
       ELSE UNCHANGED addresses
    /\ UNCHANGED <<localStorage, route, backendCart, crashed, sessSent, isBusy,
                   form, checkoutItems, newAddress>>
    /\ UNCHANGED productsVars
    /\ UNCHANGED pureVars

\* validateRequest without the comparison of the balance to the total
validateRequest_NoBalanceCheck(items, addresses_, balance) ==
    IF Len(addresses_.all) = 0 THEN FALSE
    ELSE IF addresses_.selected = "" THEN FALSE
    ELSE TRUE

\* validateRequest(items, addresses), balance being the stored balance
validateRequest(items, addresses_, balance) ==
    IF Len(addresses_.all) = 0 THEN FALSE
    ELSE IF addresses_.selected = "" THEN FALSE
    ELSE IF Number(balance) < getTotalCartValue(items) THEN FALSE
    ELSE TRUE

\* onClick of PLACE ORDER: performCheckout(token, items, addresses) up to
\* the await, or to return false. The request keeps the total of the items
\* of this render, which the continuation subtracts.
PlaceOrder ==
    /\ CheckoutLive
    /\ sessSent < MaxSessionRequests
    /\ IF validateRequest(checkoutItems, addresses, localStorage.balance)
       THEN /\ sessMsgs' = Send(sessMsgs,
                                MkReq("checkout", addresses.selected,
                                      getTotalCartValue(checkoutItems)))
            /\ sessSent' = sessSent + 1
            /\ lastOp' = DidWith("orderSent",
                                 MkReq("checkout", addresses.selected,
                                       getTotalCartValue(checkoutItems)))
       ELSE /\ lastOp' = Did("orderRefused")
            /\ UNCHANGED <<sessMsgs, sessSent>>
    /\ UNCHANGED <<localStorage, route, backendCart, crashed, isBusy, form,
                   checkoutItems, addresses, newAddress, backendAddrs>>
    /\ UNCHANGED productsVars
    /\ UNCHANGED pureVars

\* The backend handles POST /cart/checkout: it places the order, which
\* empties the cart, and answers 200, or answers another 2xx status, 400, or
\* not at all.
BackendAnswerCheckout(m, outcome) ==
    /\ m \in SessPending("checkout")
    /\ backendCart' = IF outcome = "200" THEN <<>> ELSE backendCart
    /\ sessMsgs' = Send(Take(sessMsgs, m), [m EXCEPT !.status = outcome])
    /\ lastOp' = Did("other")
    /\ UNCHANGED <<localStorage, route, crashed, sessSent, isBusy, form,
                   checkoutItems, addresses, newAddress, backendAddrs>>
    /\ UNCHANGED productsVars
    /\ UNCHANGED pureVars

\* The balance stored after an order of that amount, without the subtraction
BalanceAfterOrder_Unpaid(balance, amount) == toString(Number(balance))

\* (Number(localStorage.getItem("balance")) - getTotalCartValue(items))
\* .toString()
BalanceAfterOrder(balance, amount) == toString(Number(balance) - amount)

\* performCheckout after the await
DeliverCheckout(m) ==
    /\ m \in SessAnswered("checkout")
    /\ IF m.status = "200"
       THEN /\ localStorage' =
                    [localStorage EXCEPT
                        !.balance = BalanceAfterOrder(localStorage.balance,
                                                      m.amount)]
            /\ GoTo("/thanks", Take(sessMsgs, m), localStorage')
            /\ lastOp' = DidWith("checkout", m)
       ELSE /\ sessMsgs' = Take(sessMsgs, m)
            /\ lastOp' = DidWith("checkout", m)
            /\ UNCHANGED <<localStorage, route, sessSent, isBusy, form,
                           checkoutItems, addresses, newAddress>>
    /\ UNCHANGED <<backendCart, crashed, backendAddrs>>
    /\ UNCHANGED productsVars
    /\ UNCHANGED pureVars

----------------------------------------------------------------------------
\* SpecSession: the session pages. The user starts on the Products page, as
\* a visitor or logged in, or logged in on the Checkout page, whose mount
\* effect has started onLoadHandler. The Products page itself is left alone.

Sessions == { persistLogin("tok", "crio.do", b) : b \in Balances }

InitSession ==
    /\ localStorage \in {LoggedOut} \cup Sessions
    /\ route \in {"/", "/checkout"}
    /\ route = "/checkout" => localStorage.token # "null"
    /\ sessMsgs = IF route = "/checkout"
                  THEN SetToBag({MkReq("ck-products", "", 0)}) ELSE EmptyBag
    /\ backendCart = SessionCart
    /\ backendAddrs \in { <<>>, << AddressIds[1] >> }
    /\ crashed = FALSE
    /\ sessSent = 0
    /\ isBusy = FALSE
    /\ form = EmptyForm
    /\ checkoutItems = <<>>
    /\ addresses = NoAddresses
    /\ newAddress = FALSE
    /\ lastOp = Did("none")
    /\ ProductsIdle
    /\ PureIdle

Routes == {"/", "/login", "/register", "/checkout"}

NextSession ==
    \/ \E to \in Routes : Navigate(to)
    \/ \E username, password \in FormTexts : ClickLogin(username, password)
    \/ \E m \in SessInFlight, outcome \in {"201", "200", "400", "unreachable"},
          balance \in Balances \cup {0} : BackendAnswerLogin(m, outcome, balance)
    \/ \E m \in SessInFlight : DeliverLogin(m)
    \/ \E username, password, confirmPassword \in FormTexts :
            ClickRegister(username, password, confirmPassword)
    \/ \E m \in SessInFlight, outcome \in {"201", "200", "400", "unreachable"} :
            DeliverRegister(m, outcome)
    \/ Logout
    \/ \E m \in SessInFlight, outcome \in {"200", "500", "error"} :
            DeliverCkProducts(m, outcome)
    \/ \E m \in SessInFlight, outcome \in {"200", "error"} :
            DeliverCkCart(m, outcome)
    \/ \E m \in SessInFlight, outcome \in {"200", "error"} :
            DeliverCkAddresses(m, outcome)
    \/ \E i \in 1..Len(addresses.all) : ClickAddress(i)
    \/ ClickAddNewAddress
    \/ ClickCancel
    \/ ClickAdd
    \/ \E m \in SessInFlight, outcome \in {"200", "error"} :
            DeliverAddAddress(m, outcome)
    \/ \E i \in 1..Len(addresses.all) : ClickDelete(i)
    \/ \E m \in SessInFlight, outcome \in {"200", "error"} :
            DeliverDeleteAddress(m, outcome)
    \/ PlaceOrder
    \/ \E m \in SessInFlight, outcome \in {"200", "other", "400", "unreachable"} :
            BackendAnswerCheckout(m, outcome)
    \/ \E m \in SessInFlight : DeliverCheckout(m)

SpecSession == InitSession /\ [][NextSession]_vars

----------------------------------------------------------------------------
\* Properties of the session (SpecSession)

\* C11: token, username and balance are written only by login and
\* registration and cleared only by logout; no other operation changes any
\* of the three.
C11_OnlyLoginAndLogoutWrite ==
    [][localStorage' # localStorage
            => lastOp'.op \in {"login", "register", "logout"}]_vars

\* C11, amended: the storage changes only when a login answered 201 writes
\* the three fields, when logout removes them, and when a checkout answered
\* 200 rewrites balance, leaving token and username; registration and every
\* other operation change nothing.
C11_LoginLogoutAndCheckoutWrite ==
    [][localStorage' # localStorage
            => \/ lastOp'.op = "login" /\ lastOp'.res.status = "201"
               \/ /\ lastOp'.op = "logout"
                  /\ localStorage'.token = "null"
                  /\ localStorage'.username = "null"
                  /\ localStorage'.balance = AbsentValue
               \/ /\ lastOp'.op = "checkout"
                  /\ lastOp'.res.status = "200"
                  /\ localStorage'.token = localStorage.token
                  /\ localStorage'.username = localStorage.username]_vars

C11_Witness ==
    /\ lastOp.op = "checkout"
    /\ lastOp.res.status = "200"
    /\ localStorage.token # "null"
    /\ \A b \in Balances : Number(localStorage.balance) # b

\* C15: the continuation of login stores the token, the username and the
\* balance of the response and goes to the products page when the status is
\* 201, and changes neither storage nor route otherwise; the click changes
\* neither, and sends nothing when the username or the password is shorter
\* than 6 characters.
C15_LoginWritesOn201 ==
    [][ /\ lastOp'.op = "login" =>
            IF lastOp'.res.status = "201"
            THEN /\ localStorage'.token = lastOp'.res.token
                 /\ localStorage'.username = lastOp'.res.username
                 /\ Number(localStorage'.balance) = lastOp'.res.balance
                 /\ route' = "/"
            ELSE localStorage' = localStorage /\ route' = route
        /\ lastOp'.op = "loginClick" =>
            /\ localStorage' = localStorage
            /\ route' = route
            /\ (Length(form'.username) < 6 \/ Length(form'.password) < 6)
                    => sessMsgs' = sessMsgs ]_vars

C15_Witness ==
    /\ lastOp.op = "login"
    /\ lastOp.res.status = "201"
    /\ lastOp.res.balance > 0
    /\ route = "/"

\* C16: right after logout none of token, username and balance is stored.
C16_LogoutClearsSession ==
    lastOp.op = "logout" =>
        /\ localStorage.token = "null"
        /\ localStorage.username = "null"
        /\ localStorage.balance = AbsentValue

C16_Witness ==
    /\ lastOp.op = "logout"
    /\ sessSent = MaxSessionRequests

\* The three conditions of a checkout, on the state of the click
OrderAllowed ==
    /\ Len(addresses.all) > 0
    /\ addresses.selected # ""
    /\ Number(localStorage.balance)
            >= SumCostQty(checkoutItems, 1..Len(checkoutItems))

\* C17: a click on PLACE ORDER sends the checkout request exactly when there
\* is an address, one is selected and the stored balance is at least the
\* total of the items; otherwise it returns false at once, sends nothing
\* and leaves the storage as it was.
C17_CheckoutIsGuarded ==
    [][ /\ lastOp'.op = "orderSent" =>
            /\ OrderAllowed
            /\ lastOp'.res.kind = "checkout"
            /\ CopiesIn(lastOp'.res, sessMsgs')
                    = CopiesIn(lastOp'.res, sessMsgs) + 1
            /\ localStorage' = localStorage
        /\ lastOp'.op = "orderRefused" =>
            /\ ~OrderAllowed
            /\ sessMsgs' = sessMsgs
            /\ localStorage' = localStorage ]_vars

C17_Witness ==
    /\ lastOp.op = "orderRefused"
    /\ addresses.selected # ""
    /\ checkoutItems # <<>>

\* C18: the continuation of a checkout answered 200 lowers the stored
\* balance by the total of the items of the click and goes to the thanks
\* page; with any other answer it changes neither storage nor route.
C18_CheckoutPaysOn200 ==
    [][ /\ lastOp'.op = "orderSent" =>
            lastOp'.res.amount
                = SumCostQty(checkoutItems, 1..Len(checkoutItems))
        /\ lastOp'.op = "checkout" =>
            IF lastOp'.res.status = "200"
            THEN /\ Number(localStorage'.balance)
                        = Number(localStorage.balance) - lastOp'.res.amount
                 /\ localStorage'.token = localStorage.token
                 /\ localStorage'.username = localStorage.username
                 /\ route' = "/thanks"
            ELSE localStorage' = localStorage /\ route' = route ]_vars

C18_Witness ==
    /\ lastOp.op = "checkout"
    /\ lastOp.res.status = "200"
    /\ lastOp.res.amount > 0
    /\ route = "/thanks"

\* C19: the stored balance is never negative.
C19_BalanceNeverNegative == Number(localStorage.balance) >= 0

----------------------------------------------------------------------------
\* Properties of the cart helpers on the worked example and on catalogs that
\* repeat an identifier (SpecPure)

\* C12: on the catalog holding product "A" (Ball, 100) and the cart holding
\* three of "A", generateCartItemsFrom returns exactly one item, with
\* productId "A", name "Ball", cost 100 and qty 3, whose total value is 300
\* and whose item count is 3; on the empty cart it returns the empty list,
\* whose total value and item count are 0.
C12_WorkedExample ==
    /\ (productsData = ScenarioCatalog /\ cartData = ScenarioCart) =>
         /\ genStatus # "none" =>
              /\ genStatus = "returned"
              /\ genItems = << [productId |-> "A", name |-> "Ball",
                                cost |-> 100, qty |-> 3, rating |-> 5,
                                category |-> "Sports", image |-> "x"] >>
         /\ valueStatus = "returned" => valueResult = 300
         /\ (countStatus = "returned" /\ argKind = "list") => countResult = 3
    /\ cartData = <<>> =>
         /\ genStatus # "none" => (genStatus = "returned" /\ genItems = <<>>)
         /\ valueStatus = "returned" => valueResult = 0
         /\ countStatus = "returned" => countResult = 0

C12_Witness ==
    /\ productsData = ScenarioCatalog
    /\ cartData = ScenarioCart
    /\ argKind = "list"
    /\ valueStatus = "returned"
    /\ countStatus = "returned"

\* C13: when several products of the catalog have the identifier of a cart
\* line, the item generateCartItemsFrom returns for that line carries the
\* fields of the first of them in catalog order.
C13_FirstMatchWins ==
    genStatus = "returned" =>
        \A i \in 1..Len(cartData) : \A j \in 1..Len(productsData) :
            ( /\ productsData[j]._id = cartData[i].productId
              /\ \A k \in 1..(j - 1) :
                    productsData[k]._id # cartData[i].productId )
            => /\ genItems[i].name = productsData[j].name
               /\ genItems[i].category = productsData[j].category
               /\ genItems[i].cost = productsData[j].cost
               /\ genItems[i].rating = productsData[j].rating
               /\ genItems[i].image = productsData[j].image

C13_Witness ==
    /\ genStatus = "returned"
    /\ \E i \in 1..Len(cartData) : \E j, k \in 1..Len(productsData) :
            /\ j < k
            /\ productsData[j]._id = cartData[i].productId
            /\ productsData[k]._id = cartData[i].productId
            /\ productsData[j] # productsData[k]

----------------------------------------------------------------------------
\* Properties of the cart of the Products page (Spec)

\* C20: on the Products page of a logged-in user, once no cart request is in
\* flight any more and none has failed, the cart the page holds is the cart
\* the backend holds, in whatever order the responses arrived.
C20_CartMatchesBackend ==
    ( /\ PageLive
      /\ CartRendered
      /\ ~failed
      /\ \A m \in InFlight : m.kind \notin {"cart", "post"} )
    => (cartKind = "list" /\ cart = backendCart)

----------------------------------------------------------------------------
\* The quantity buttons of the cart (Spec)

\* A quantity the clicks add up to, which cannot go below none at all
AtLeastZero(n) == IF n < 0 THEN 0 ELSE n

\* C21: each click on + (or -) of a cart row raises (or lowers) the quantity
\* of that product by one, also when the response to an earlier click has
\* not arrived: once every cart request has succeeded and been handled, the
\* cart shows for each product the quantity at page load plus the clicks on
\* + minus the clicks on -.
C21_ClicksAddUp ==
    ( /\ PageLive /\ CartRendered /\ ~failed /\ cartKind = "list"
      /\ \A m \in InFlight : m.kind \notin {"cart", "post"} )
    => \A p \in CatalogIds : QtyIn(cart, p) = AtLeastZero(expectedQty[p])

\* Two clicks on + of one row before any response, both requests accepted
\* and handled: the quantity has grown by one.
C21_Witness ==
    /\ PageLive /\ CartRendered /\ ~failed /\ cartKind = "list"
    /\ \A m \in InFlight : m.kind \notin {"cart", "post"}
    /\ \E p \in CatalogIds :
            /\ expectedQty[p] = QtyIn(cart, p) + 1
            /\ QtyIn(cart, p) = MaxQty
            /\ backendCart = cart

----------------------------------------------------------------------------
\* SpecGuards: the two places that ask for a token before they send anything.
\* The Products page is mounted, for a visitor or a logged-in user; its
\* add-to-cart handler is invoked, and the user leaves for the Login or the
\* Checkout page, where Checkout's onLoadHandler runs, the backend answering
\* its requests with 200 (SpecSession has the other answers).

\* The route the guards push, and the route of the page that is guarded
GuardRoutes == {"/login", "/checkout"}

NextGuards ==
    \/ \E m \in InFlight, outcome \in LoadOutcomes : DeliverProducts(m, outcome)
    \/ \E m \in InFlight, outcome \in {"200", "error"} : BackendAnswerCart(m, outcome)
    \/ \E m \in InFlight : DeliverCart(m)
    \/ \E p \in 1..Len(products) : HandleAddToCart(p)
    \/ \E m \in InFlight, outcome \in {"200", "error"} : BackendAnswerPost(m, outcome)
    \/ \E m \in InFlight : DeliverPost(m)
    \/ \E to \in GuardRoutes : Navigate(to)
    \/ \E m \in SessInFlight : DeliverCkProducts(m, "200")
    \/ \E m \in SessInFlight : DeliverCkCart(m, "200")
    \/ \E m \in SessInFlight : DeliverCkAddresses(m, "200")

SpecGuards == Init /\ [][NextGuards]_vars

\* C22: with no token stored, going to the Checkout page ends on /login
\* with no product, cart or address request sent, and the page is never
\* shown; and a call of addToCart ends on /login with no cart request sent
\* and the local cart as it was.
C22_NoTokenNoRequest ==
    [][ localStorage.token = "null" =>
            /\ route' # "/checkout"
            /\ Navigate("/checkout") =>
                    /\ route' = "/login"
                    /\ sessSent' = sessSent
                    /\ sessMsgs' = EmptyBag
            /\ (\E p \in 1..Len(products) : HandleAddToCart(p)) =>
                    /\ route' = "/login"
                    /\ msgs' = msgs
                    /\ requestsSent' = requestsSent
                    /\ cartKind' = cartKind
                    /\ cart' = cart
                    /\ cartItems' = cartItems ]_vars

\* A visitor with the products shown has called addToCart and is on /login.
C22_Witness ==
    /\ localStorage.token = "null"
    /\ route = "/login"
    /\ lastOp.op = "none"
    /\ products = Catalog
    /\ msgs = EmptyBag
    /\ sessSent = 0

----------------------------------------------------------------------------
\* The "Add to cart" button of a product card (SpecCards)

\* C23: a click on the "Add to cart" button of a product card, with a user
\* logged in, invokes the add-to-cart handler of the page for that product:
\* POST /cart for one piece of the product is sent, whose accepted response
\* puts the product into the local cart.
C23_ButtonInvokesHandler ==
    [][ (cardClicked' # cardClicked /\ localStorage.token # "null")
            => msgs' = Send(msgs, CartPost(cardClicked', 1)) ]_vars

\* The button of the Ball has been clicked by a logged-in user whose cart is
\* empty: nothing was sent, nothing is in flight, the cart is empty still.
C23_Witness ==
    /\ cardClicked = "p1"
    /\ localStorage.token # "null"
    /\ PageLive
    /\ requestsSent = 0
    /\ msgs = EmptyBag
    /\ cartKind = "list"
    /\ cart = <<>>
    /\ backendCart = <<>>

----------------------------------------------------------------------------
\* Loading the products (SpecLive)

\* The products the backend has
CatalogProducts == { Catalog[i] : i \in 1..Len(Catalog) }

\* C24: on the Products page the loading flag is true at first and false in
\* the end, whatever the outcome of the initial product request, and the
\* products state is a list in every state.
C24_LoadingEnds ==
    /\ isBusyLoading = TRUE
    /\ <>(~isBusyLoading)
    /\ [](products \in Seq(CatalogProducts))

\* An uncaught error has unmounted the page while the product request was
\* in flight; the request has been answered since, and the flag is true.
C24_Witness ==
    /\ crashed
    /\ isBusyLoading
    /\ Pending("products") = {}

====
